---- MODULE Spec2Model ----
(***************************************************************************)
(* A model of generate_quarto_nav.py: one run of main() reads the          *)
(* navigation records and the content records, derives the page paths,     *)
(* renders _quarto.yml and creates or refreshes the page files.            *)
(*                                                                         *)
(* Representation of text.  A Python str is a sequence of tokens, each a   *)
(* TLA+ string: a token is either one character (labels, slugs, sidebar_as *)
(* are spelled character by character) or a literal fragment of a format   *)
(* string of the source.  A file's content is the token sequence that      *)
(* f.write() received, with "\n" tokens between the lines.  The platform   *)
(* is POSIX: text-mode writes store "\n" unchanged, text-mode reads apply  *)
(* universal newlines.  File operations themselves succeed (no I/O error), *)
(* and --yml-out names no page path.                                       *)
(*                                                                         *)
(* The parsed rows of nodes.csv and page_content.csv are the inputs: the   *)
(* CSV dialect detection and cell splitting are not modelled, a row is the *)
(* dict normalize_row_keys() returns, with "" for an absent column.        *)
(***************************************************************************)
EXTENDS Integers, Sequences, FiniteSets, TLC

(***************************************************************************)
(* Characters and strings                                                  *)
(***************************************************************************)
UpperChars == << "A","B","C","D","E","F","G","H","I","J","K","L","M",
                 "N","O","P","Q","R","S","T","U","V","W","X","Y","Z" >>

LowerChars == << "a","b","c","d","e","f","g","h","i","j","k","l","m",
                 "n","o","p","q","r","s","t","u","v","w","x","y","z" >>

DigitChars == << "0","1","2","3","4","5","6","7","8","9" >>

SpaceChars == { " ", "\t", "\n", "\r", "\f" }

\* the characters of the model in code point order
CodePoints == << "\t", "\n", "\f", "\r", " ", "!", "-" >> \o DigitChars
                 \o UpperChars \o << "_" >> \o LowerChars

Range(s) == { s[i] : i \in DOMAIN s }

IndexOf(s, c) == CHOOSE i \in DOMAIN s : s[i] = c

\* str.lower() on one character
LowerChar(c) == IF c \in Range(UpperChars) THEN LowerChars[IndexOf(UpperChars, c)] ELSE c

\* str.lower()
Lower(s) == [ i \in DOMAIN s |-> LowerChar(s[i]) ]

Ord(c) == IndexOf(CodePoints, c)

\* Python's str < str: lexicographic on code points
RECURSIVE StrLess(_, _)
StrLess(s, t) ==
    IF t = << >> THEN FALSE
    ELSE IF s = << >> THEN TRUE
    ELSE IF Ord(Head(s)) # Ord(Head(t)) THEN Ord(Head(s)) < Ord(Head(t))
    ELSE StrLess(Tail(s), Tail(t))

\* re.sub(r"[^a-z0-9\-_\s]+", "", text)
RECURSIVE DropNonSlugChars(_)
DropNonSlugChars(s) ==
    IF s = << >> THEN << >>
    ELSE IF Head(s) \in Range(LowerChars) \cup Range(DigitChars) \cup { "-", "_" } \cup SpaceChars
         THEN << Head(s) >> \o DropNonSlugChars(Tail(s))
         ELSE DropNonSlugChars(Tail(s))

\* re.sub(r"[\s]+", "-", text)
RECURSIVE HyphenateSpaces(_)
HyphenateSpaces(s) ==
    IF s = << >> THEN << >>
    ELSE IF Head(s) \in SpaceChars
         THEN IF Tail(s) # << >> /\ Head(Tail(s)) \in SpaceChars
              THEN HyphenateSpaces(Tail(s))
              ELSE << "-" >> \o HyphenateSpaces(Tail(s))
         ELSE << Head(s) >> \o HyphenateSpaces(Tail(s))

\* str.lstrip(chars)
RECURSIVE LStrip(_, _)
LStrip(s, chars) ==
    IF s # << >> /\ Head(s) \in chars THEN LStrip(Tail(s), chars) ELSE s

\* str.rstrip(chars)
RECURSIVE RStrip(_, _)
RStrip(s, chars) ==
    IF s # << >> /\ s[Len(s)] \in chars THEN RStrip(SubSeq(s, 1, Len(s) - 1), chars) ELSE s

Strip(s, chars) == RStrip(LStrip(s, chars), chars)

slugify(text) ==
    LET t == Strip(HyphenateSpaces(DropNonSlugChars(Lower(text))), { "-" })
    IN  IF t # << >> THEN t ELSE << "p", "a", "g", "e" >>

\* sep.join(parts), parts a sequence of strings (computed by halves)
RECURSIVE Join(_, _)
Join(parts, sep) ==
    IF parts = << >> THEN << >>
    ELSE IF Len(parts) = 1 THEN parts[1]
    ELSE LET h == Len(parts) \div 2 IN
         Join(SubSeq(parts, 1, h), sep) \o << sep >> \o Join(SubSeq(parts, h + 1, Len(parts)), sep)

\* [prefix + l for l in lines]
Indent(prefix, lines) == [ i \in DOMAIN lines |-> << prefix >> \o lines[i] ]

(***************************************************************************)
(* read_nodes: rows -> (nodes, children) or an exception                   *)
(***************************************************************************)
DefaultOrder == 999

RequiredColumns == { "id", "label", "kind" }

\* not any((row.get(k) or "").strip() for k in row)
IsBlankRow(row) ==
    /\ row.id = "" /\ row.parent_id = "" /\ row.kind = ""
    /\ row.label = << >> /\ row.slug = << >> /\ row.file_path = << >>
    /\ row.order = << >> /\ row.description = << >>
    /\ row.external_url = << >> /\ row.sidebar_as = << >>

\* [c for c in required if (row.get(c) or "") == ""]
MissingColumns(row) ==
    { c \in RequiredColumns : \/ c = "id" /\ row.id = ""
                              \/ c = "label" /\ row.label = << >>
                              \/ c = "kind" /\ row.kind = "" }

\* str.isdigit()
IsDigitStr(s) == s # << >> /\ \A i \in DOMAIN s : s[i] \in Range(DigitChars)

\* int(s) for a string of decimal digits
RECURSIVE IntOf(_)
IntOf(s) ==
    IF s = << >> THEN 0
    ELSE 10 * IntOf(SubSeq(s, 1, Len(s) - 1)) + (IndexOf(DigitChars, s[Len(s)]) - 1)

\* the node dict built from one row
NodeOfRow(row) ==
    [ id           |-> row.id,
      parent_id    |-> row.parent_id,
      label        |-> row.label,
      slug         |-> IF row.slug # << >> THEN row.slug ELSE slugify(row.label),
      kind         |-> row.kind,
      file_path    |-> row.file_path,
      order        |-> IF IsDigitStr(row.order) THEN IntOf(row.order) ELSE DefaultOrder,
      description  |-> row.description,
      external_url |-> row.external_url,
      sidebar_as   |-> Lower(row.sidebar_as) ]

\* nodes is the dict in insertion order: a sequence of node records, unique ids
NodeIds(nodes) == { nodes[i].id : i \in DOMAIN nodes }

NodeAt(nodes, nid) == nodes[CHOOSE i \in DOMAIN nodes : nodes[i].id = nid]

\* a reader that keeps the first row of an id and drops the later ones
RECURSIVE ScanRowsKeepFirst(_, _)
ScanRowsKeepFirst(rows, nodes) ==
    IF rows = << >> THEN [ err |-> "", nodes |-> nodes ]
    ELSE LET row == Head(rows) IN
         IF IsBlankRow(row) THEN ScanRowsKeepFirst(Tail(rows), nodes)
         ELSE IF MissingColumns(row) # { } THEN [ err |-> "missing", nodes |-> nodes ]
         ELSE IF row.id \in NodeIds(nodes) THEN ScanRowsKeepFirst(Tail(rows), nodes)
         ELSE ScanRowsKeepFirst(Tail(rows), Append(nodes, NodeOfRow(row)))

\* the for-loop over the reader: the dict so far, or the exception raised
RECURSIVE ScanRows(_, _)
ScanRows(rows, nodes) ==
    IF rows = << >> THEN [ err |-> "", nodes |-> nodes ]
    ELSE LET row == Head(rows) IN
         IF IsBlankRow(row) THEN ScanRows(Tail(rows), nodes)
         ELSE IF MissingColumns(row) # { } THEN [ err |-> "missing", nodes |-> nodes ]
         ELSE IF row.id \in NodeIds(nodes) THEN [ err |-> "duplicate", nodes |-> nodes ]
         ELSE ScanRows(Tail(rows), Append(nodes, NodeOfRow(row)))

\* key=lambda nid: (nodes[nid]["order"], nodes[nid]["label"].lower())
KeyLess(nodes, a, b) ==
    LET na == NodeAt(nodes, a)
        nb == NodeAt(nodes, b)
    IN  \/ na.order < nb.order
        \/ na.order = nb.order /\ StrLess(Lower(na.label), Lower(nb.label))

\* list.sort(key=...): stable, so equal keys keep their insertion order
RECURSIVE InsertSorted(_, _, _)
InsertSorted(nodes, sorted, nid) ==
    IF sorted = << >> THEN << nid >>
    ELSE IF KeyLess(nodes, nid, Head(sorted)) THEN << nid >> \o sorted
    ELSE << Head(sorted) >> \o InsertSorted(nodes, Tail(sorted), nid)

RECURSIVE SortIds(_, _)
SortIds(nodes, ids) ==
    IF ids = << >> THEN << >>
    ELSE InsertSorted(nodes, SortIds(nodes, SubSeq(ids, 1, Len(ids) - 1)), ids[Len(ids)])

\* the ids of the rows that name pid as parent, in dict order
RECURSIVE IdsWithParent(_, _)
IdsWithParent(nodes, pid) ==
    IF nodes = << >> THEN << >>
    ELSE IF Head(nodes).parent_id = pid
         THEN << Head(nodes).id >> \o IdsWithParent(Tail(nodes), pid)
         ELSE IdsWithParent(Tail(nodes), pid)

\* children: a dict whose keys are the parent ids that occur
ChildrenOf(nodes) ==
    [ pid \in { nodes[i].parent_id : i \in DOMAIN nodes } \ { "" }
        |-> SortIds(nodes, IdsWithParent(nodes, pid)) ]

read_nodes(rows) ==
    LET scan == ScanRows(rows, << >>) IN
    IF scan.err # "" THEN [ err |-> scan.err, nodes |-> << >>, children |-> << >> ]
    ELSE IF \E i \in DOMAIN scan.nodes :
                /\ scan.nodes[i].parent_id # ""
                /\ scan.nodes[i].parent_id \notin NodeIds(scan.nodes)
         THEN [ err |-> "parent", nodes |-> << >>, children |-> << >> ]
    ELSE [ err |-> "", nodes |-> scan.nodes, children |-> ChildrenOf(scan.nodes) ]

\* children.get(nid, [])
Kids(children, nid) == IF nid \in DOMAIN children THEN children[nid] ELSE << >>

\* sorted([n for n in nodes.values() if parent_id == "" and kind == "navbar"], key=...)
find_roots(nodes) ==
    SortIds(nodes, SelectSeq([ i \in DOMAIN nodes |-> nodes[i].id ],
                             LAMBDA nid : /\ NodeAt(nodes, nid).parent_id = ""
                                          /\ NodeAt(nodes, nid).kind = "navbar"))

(***************************************************************************)
(* Path derivation                                                         *)
(***************************************************************************)
IndexKinds == { "navbar", "landing", "section" }

\* a file_path that is never assigned: compute_default_file_path does not return
Diverges == << "<compute_default_file_path does not return>" >>

\* path_slugs after the while-loop: the slugs from the node up to a node with
\* an empty parent_id.  A chain of more than Len(nodes) links revisits a node,
\* and then the loop never ends: the result is << >>, which no ending loop gives.
RECURSIVE ClimbSlugs(_, _, _, _)
ClimbSlugs(nodes, pid, path_slugs, steps) ==
    IF pid = "" THEN path_slugs
    ELSE IF steps > Len(nodes) THEN << >>
    ELSE ClimbSlugs(nodes, NodeAt(nodes, pid).parent_id,
                    Append(path_slugs, NodeAt(nodes, pid).slug), steps + 1)

Reverse(s) == [ i \in DOMAIN s |-> s[Len(s) + 1 - i] ]

\* a derivation that forgets path_slugs.reverse()
compute_default_file_path_leaf_first(nodes, node_id) ==
    LET n == NodeAt(nodes, node_id) IN
    IF n.kind = "external" THEN << >>
    ELSE LET path_slugs == ClimbSlugs(nodes, n.parent_id, << n.slug >>, 1) IN
         IF path_slugs = << >> THEN Diverges
         ELSE IF n.kind \in IndexKinds
              THEN Join(Append(path_slugs, << "index.qmd" >>), "/")
              ELSE Join(Append(SubSeq(path_slugs, 1, Len(path_slugs) - 1),
                               n.slug \o << ".qmd" >>), "/")

compute_default_file_path(nodes, node_id) ==
    LET n == NodeAt(nodes, node_id) IN
    IF n.kind = "external" THEN << >>
    ELSE LET up == ClimbSlugs(nodes, n.parent_id, << n.slug >>, 1) IN
         IF up = << >> THEN Diverges
         ELSE LET path_slugs == Reverse(up) IN
              IF n.kind \in IndexKinds
              THEN Join(Append(path_slugs, << "index.qmd" >>), "/")
              ELSE Join(Append(SubSeq(path_slugs, 1, Len(path_slugs) - 1),
                               n.slug \o << ".qmd" >>), "/")

\* a loop body that derives paths for the index kinds only
EnsurePathOfIndexKinds(nodes, i) ==
    IF nodes[i].kind \in IndexKinds /\ nodes[i].file_path = << >>
    THEN [ nodes EXCEPT ![i].file_path = compute_default_file_path(nodes, nodes[i].id) ]
    ELSE nodes

\* one iteration of the loop of ensure_paths, on the i-th node of the dict
EnsurePathOf(nodes, i) ==
    LET n  == nodes[i]
        n1 == IF n.slug = << >> THEN [ n EXCEPT !.slug = slugify(n.label) ] ELSE n
        ns == [ nodes EXCEPT ![i] = n1 ]
    IN  IF n1.kind # "external" /\ n1.file_path = << >>
        THEN [ ns EXCEPT ![i].file_path = compute_default_file_path(ns, n1.id) ]
        ELSE ns

RECURSIVE EnsureFrom(_, _)
EnsureFrom(nodes, i) ==
    IF i > Len(nodes) THEN nodes
    ELSE LET ns == EnsurePathOf(nodes, i) IN
         IF ns[i].file_path = Diverges THEN << >> ELSE EnsureFrom(ns, i + 1)

\* the nodes with their paths; << >> when a call does not return (main() is
\* past the roots check, so the dict of a returning call is never empty)
ensure_paths(nodes) == EnsureFrom(nodes, 1)

(***************************************************************************)
(* Sidebar and navbar rendering.  A line is a string; L is a list of lines *)
(***************************************************************************)
TEXT == << "t", "e", "x", "t" >>

SECTION == << "s", "e", "c", "t", "i", "o", "n" >>

AUTO == << "a", "u", "t", "o" >>

\* a resolution that ignores sidebar_as
landing_render_mode_auto_only(node, has_children) ==
    << IF has_children THEN SECTION ELSE TEXT, "auto" >>

\* (mode, origin)
landing_render_mode(node, has_children) ==
    LET mode == Lower(node.sidebar_as) IN
    IF mode \in { TEXT, SECTION } THEN << mode, "explicit" >>
    ELSE << IF has_children THEN SECTION ELSE TEXT, "auto" >>

\* href = external_url if kind == "external" else file_path
HrefOf(n) == IF n.kind = "external" THEN n.external_url ELSE n.file_path

TextLine(n) == << "- text: \"" >> \o n.label \o << "\"" >>

HrefLine(n) == << "  href: " >> \o HrefOf(n)

RECURSIVE build_sidebar_contents(_, _, _)
RECURSIVE KidsLines(_, _, _)
\* a loop that lists every kid as a plain link, nested sections included
RECURSIVE KidsLinesAsLeaves(_, _, _)
KidsLinesAsLeaves(nodes, children, kids) ==
    IF kids = << >> THEN << >>
    ELSE LET child == NodeAt(nodes, Head(kids)) IN
         << << "    " >> \o TextLine(child), << "    " >> \o HrefLine(child) >>
         \o KidsLinesAsLeaves(nodes, children, Tail(kids))

\* the for-loop over kids inside a section
KidsLines(nodes, children, kids) ==
    IF kids = << >> THEN << >>
    ELSE LET child == NodeAt(nodes, Head(kids)) IN
         ( IF child.kind \in { "landing", "section" }
           THEN Indent("    ", build_sidebar_contents(nodes, children, child.id))
           ELSE << << "    " >> \o TextLine(child), << "    " >> \o HrefLine(child) >> )
         \o KidsLines(nodes, children, Tail(kids))

build_sidebar_contents(nodes, children, node_id) ==
    LET n    == NodeAt(nodes, node_id)
        kids == Kids(children, node_id)
    IN  IF n.kind \in { "landing", "section" }
        THEN LET mode == IF n.kind = "landing"
                         THEN landing_render_mode(n, kids # << >>)[1]
                         ELSE SECTION
             IN  IF mode = SECTION
                 THEN << << "- section: \"" >> \o n.label \o << "\"" >> >>
                      \o ( IF n.file_path # << >>
                           THEN << << "  href: " >> \o n.file_path >> ELSE << >> )
                      \o ( IF kids # << >>
                           THEN << << "  contents:" >> >> \o KidsLines(nodes, children, kids)
                           ELSE << >> )
                 ELSE << TextLine(n), HrefLine(n) >>
        ELSE << TextLine(n), HrefLine(n) >>

\* the per-root part of the navbar loop
RECURSIVE NavbarLines(_, _)
NavbarLines(nodes, roots) ==
    IF roots = << >> THEN << >>
    ELSE LET root == NodeAt(nodes, Head(roots)) IN
         << << "      - text: \"" >> \o root.label \o << "\"" >> >>
         \o ( IF root.file_path # << >>
              THEN << << "        href: " >> \o root.file_path >> ELSE << >> )
         \o NavbarLines(nodes, Tail(roots))

\* the for-loop over root_children
RECURSIVE RootChildLines(_, _, _)
RootChildLines(nodes, children, kids) ==
    IF kids = << >> THEN << >>
    ELSE LET c == NodeAt(nodes, Head(kids)) IN
         ( IF c.kind \in { "landing", "section" }
           THEN Indent("        ", build_sidebar_contents(nodes, children, c.id))
           ELSE IF c.kind \in { "item", "external" }
           THEN << << "        " >> \o TextLine(c), << "        " >> \o HrefLine(c) >>
           ELSE << >> )
         \o RootChildLines(nodes, children, Tail(kids))

\* a default link that is inserted even next to a landing child
RootDefaultLinesAlways(nodes, children, root) ==
    IF root.file_path # << >>
    THEN << << "        " >> \o TextLine(root), << "        " >> \o HrefLine(root) >>
    ELSE << >>

\* the default link of a root: its two lines, or none
RootDefaultLines(nodes, children, root) ==
    LET root_children == Kids(children, root.id)
        has_explicit_landing_child ==
            \E i \in DOMAIN root_children : NodeAt(nodes, root_children[i]).kind = "landing"
    IN  IF root.file_path # << >> /\ ~ has_explicit_landing_child
        THEN << << "        " >> \o TextLine(root), << "        " >> \o HrefLine(root) >>
        ELSE << >>

\* one iteration of the sidebar loop: the block of one root
SidebarBlock(nodes, children, root, sidebar_style, sidebar_background) ==
    << << "    - title: \"" >> \o root.label \o << "\"" >> >>
    \o ( IF sidebar_style # << >>
         THEN << << "      style: \"" >> \o sidebar_style \o << "\"" >> >> ELSE << >> )
    \o ( IF sidebar_background # << >>
         THEN << << "      background: " >> \o sidebar_background >> ELSE << >> )
    \o << << "      contents:" >> >>
    \o RootDefaultLines(nodes, children, root)
    \o RootChildLines(nodes, children, Kids(children, root.id))
    \o << << >> >>

RECURSIVE SidebarLines(_, _, _, _, _)
SidebarLines(nodes, children, roots, sidebar_style, sidebar_background) ==
    IF roots = << >> THEN << >>
    ELSE SidebarBlock(nodes, children, NodeAt(nodes, Head(roots)),
                      sidebar_style, sidebar_background)
         \o SidebarLines(nodes, children, Tail(roots), sidebar_style, sidebar_background)

\* "\n".join(L): the text of a list of lines
JoinLines(L) == Join(L, "\n")

build_yaml(site_title, roots, nodes, children, theme1, theme2, css, toc, sidebar_style, sidebar_background) ==
    LET L == << << "project:" >>,
                << "  pre-render:" >>,
                << "    - \"python generate_quarto_nav.py nodes.csv --yml-out _quarto.yml --create-stubs --sidebar-style docked --sidebar-background light\"" >>,
                << "  resources:" >>,
                << "    - nodes.csv" >>,
                << "    - page_content.csv" >>,
                << "  type: website" >>,
                << >>,
                << "website:" >>,
                << "  title: \"" >> \o site_title \o << "\"" >>,
                << "  navbar:" >>,
                << "    left:" >> >>
             \o NavbarLines(nodes, roots)
             \o << << >>, << "  sidebar:" >> >>
             \o SidebarLines(nodes, children, roots, sidebar_style, sidebar_background)
             \o << << >>,
                   << "format:" >>,
                   << "  html:" >>,
                   << "    theme:" >>,
                   << "      - " >> \o theme1,
                   << "      - " >> \o theme2,
                   << "    css: " >> \o css,
                   << "    toc: ", IF toc THEN "true" ELSE "false" >>,
                   << >> >>
    IN  RStrip(JoinLines(L), SpaceChars) \o << "\n" >>

(***************************************************************************)
(* validate_tree: the lines it prints                                      *)
(***************************************************************************)
node_line(nodes, children, n) ==
    LET basic == n.label \o << " [", n.kind, "]" >> IN
    IF n.kind = "landing"
    THEN LET mode == landing_render_mode(n, Kids(children, n.id) # << >>)[1] IN
         basic \o << " (sidebar_as=" >>
               \o ( IF n.sidebar_as # << >> THEN n.sidebar_as ELSE AUTO )
               \o << " -> " >> \o mode \o << ")" >>
    ELSE basic

RECURSIVE walk(_, _, _, _)
RECURSIVE WalkKids(_, _, _, _)
WalkKids(nodes, children, kids, depth) ==
    IF kids = << >> THEN << >>
    ELSE walk(nodes, children, Head(kids), depth)
         \o WalkKids(nodes, children, Tail(kids), depth)

walk(nodes, children, nid, depth) ==
    << [ i \in 1 .. depth |-> "  " ] \o << "- " >>
       \o node_line(nodes, children, NodeAt(nodes, nid)) >>
    \o WalkKids(nodes, children, Kids(children, nid), depth + 1)

RECURSIVE WalkRoots(_, _, _)
WalkRoots(nodes, children, roots) ==
    IF roots = << >> THEN << >>
    ELSE walk(nodes, children, Head(roots), 0) \o WalkRoots(nodes, children, Tail(roots))

\* the warnings list: landing nodes in text mode that have children
RECURSIVE LandingWarnings(_, _, _)
LandingWarnings(nodes, children, i) ==
    IF i > Len(nodes) THEN << >>
    ELSE LET n        == nodes[i]
             has_kids == Kids(children, n.id) # << >>
         IN  ( IF /\ n.kind = "landing"
                  /\ landing_render_mode(n, has_kids)[1] = TEXT
                  /\ has_kids
               THEN << << "Landing '" >> \o n.label \o << "' (id=", n.id,
                          ") set to 'text' but has children; children won't appear nested under it." >> >>
               ELSE << >> )
             \o LandingWarnings(nodes, children, i + 1)

validate_tree(nodes, children) ==
    LET roots    == find_roots(nodes)
        warnings == LandingWarnings(nodes, children, 1)
    IN  << << "=== Navigation tree ===" >> >>
        \o WalkRoots(nodes, children, roots)
        \o ( IF warnings # << >>
             THEN << << "\n", "=== Warnings ===" >> >> \o Indent("- ", warnings)
             ELSE << << "\n", "No warnings." >> >> )

(***************************************************************************)
(* Page bodies                                                             *)
(***************************************************************************)
\* a or b on strings
Or(a, b) == IF a # << >> THEN a ELSE b

\* the marker line of the front matter
AutogenMarker == "autogen: true"

\* f"      {key}: {value}".rstrip()
GridLine(key, value) == RStrip(<< key, ":", " " >> \o value, SpaceChars)

\* ln.endswith(': ')
EndsWithColonSpace(ln) == Len(ln) >= 2 /\ ln[Len(ln)] = " " /\ ln[Len(ln) - 1] = ":"

\* the optional grid block of the front matter
GridLines(cfg) ==
    IF \E v \in { cfg.grid_sidebar_width, cfg.grid_body_width,
                  cfg.grid_margin_width, cfg.grid_gutter_width } : v # << >>
    THEN SelectSeq(<< << "format:" >>,
                      << "  html:" >>,
                      << "    grid:" >>,
                      GridLine("      sidebar-width", cfg.grid_sidebar_width),
                      GridLine("      body-width", cfg.grid_body_width),
                      GridLine("      margin-width", cfg.grid_margin_width),
                      GridLine("      gutter-width", cfg.grid_gutter_width) >>,
                   LAMBDA ln : ~ EndsWithColonSpace(ln))
    ELSE << >>

FrontMatterText(cfg, title) ==
    JoinLines(<< << "---" >>, << "title: \"" >> \o title \o << "\"" >>, << AutogenMarker >> >>
              \o GridLines(cfg) \o << << "---" >> >>)

IframeLine(style, height, width, src) ==
    << "<iframe style=\"" >> \o style \o << "\" height=\"" >> \o height
    \o << "\" width=\"" >> \o width \o << "\" src=\"" >> \o src \o << "\"></iframe>" >>

\* a TLA+ string cannot hold the backquote: the code fence is spelled ~~~
HtmlBlock(style, height, width, src) ==
    << << "~~~{=html}" >>, IframeLine(style, height, width, src), << "~~~" >>, << >> >>

render_single_iframe(cfg, title) ==
    LET intro  == Strip(cfg.intro_md, SpaceChars)
        layout == Strip(Or(cfg.layout, << "[ [1] ]" >>), SpaceChars)
        src    == Or(cfg.iframe1_src, Or(cfg.iframe_src, << >>))
        height == Or(cfg.iframe1_height, Or(cfg.iframe_height, << "800" >>))
        width  == Or(cfg.iframe1_width, Or(cfg.iframe_width, << "100%" >>))
        style  == Or(cfg.iframe1_style, Or(cfg.iframe_style, << "border:none;" >>))
        body   == ( IF intro # << >> THEN << intro, << >> >> ELSE << >> )
                  \o << << "::: {layout=\"" >> \o layout \o << "\"}" >>, << >> >>
                  \o HtmlBlock(style, height, width, src)
                  \o << << ":::" >> >>
    IN  FrontMatterText(cfg, title) \o << "\n", "\n" >> \o JoinLines(body) \o << "\n" >>

render_doble_iframe(cfg, title) ==
    LET intro   == Strip(cfg.intro_md, SpaceChars)
        layout  == Strip(Or(cfg.layout, << "[ [1,1] ]" >>), SpaceChars)
        src1    == Or(cfg.iframe1_src, Or(cfg.iframe_src, << >>))
        height1 == Or(cfg.iframe1_height, Or(cfg.iframe_height, << "800" >>))
        width1  == Or(cfg.iframe1_width, Or(cfg.iframe_width, << "100%" >>))
        style1  == Or(cfg.iframe1_style, Or(cfg.iframe_style, << "border:none;" >>))
        src2    == Or(cfg.iframe2_src, << >>)
        height2 == Or(cfg.iframe2_height, << "800" >>)
        width2  == Or(cfg.iframe2_width, << "100%" >>)
        style2  == Or(cfg.iframe2_style, << "border:none;" >>)
        body    == ( IF intro # << >> THEN << intro, << >> >> ELSE << >> )
                   \o << << "::: {layout=\"" >> \o layout \o << "\"}" >>, << >> >>
                   \o HtmlBlock(style1, height1, width1, src1)
                   \o HtmlBlock(style2, height2, width2, src2)
                   \o << << ":::" >> >>
    IN  FrontMatterText(cfg, title) \o << "\n", "\n" >> \o JoinLines(body) \o << "\n" >>

\* the text write_stub writes when the page is missing
RECURSIVE LinkLines(_)
LinkLines(children_links) ==
    IF children_links = << >> THEN << >>
    ELSE << "- [" >> \o Head(children_links)[1] \o << "](" >> \o Head(children_links)[2]
         \o << ")", "\n" >> \o LinkLines(Tail(children_links))

StubText(title, is_landing, children_links, description) ==
    LET front_matter == << << "---" >>, << "title: \"" >> \o title \o << "\"" >> >>
                        \o ( IF description # << >>
                             THEN << << "description: \"" >> \o description \o << "\"" >> >>
                             ELSE << >> )
                        \o << << "---" >> >>
        fm   == JoinLines(front_matter) \o << "\n", "\n" >>
        body == IF is_landing /\ children_links # << >>
                THEN << "## Contents", "\n", "\n" >> \o LinkLines(children_links) \o << "\n" >>
                ELSE << "Content for **" >> \o title \o << "**.", "\n" >>
    IN  fm \o body

(***************************************************************************)
(* Files.  A file is [exists, text]; fs maps the paths of the page files   *)
(* that exist to their text; yml is the file at --yml-out.                 *)
(***************************************************************************)
NoFile == [ exists |-> FALSE, text |-> << >> ]

FileOf(text) == [ exists |-> TRUE, text |-> text ]

\* os.path.exists(path)
Exists(files, path) == path \in DOMAIN files

PageFile(files, path) == IF Exists(files, path) THEN FileOf(files[path]) ELSE NoFile

\* open(path, "w").write(text)
WriteFile(files, path, text) ==
    [ p \in DOMAIN files \cup { path } |-> IF p = path THEN text ELSE files[p] ]

\* f.read() in text mode: universal newlines turn "\r\n" and "\r" into "\n"
ReadText(text) ==
    LET kept == SelectSeq([ i \in DOMAIN text |-> i ],
                          LAMBDA i : ~ ( /\ text[i] = "\r"
                                         /\ i < Len(text)
                                         /\ text[i + 1] = "\n" ))
    IN  [ k \in DOMAIN kept |-> IF text[kept[k]] = "\r" THEN "\n" ELSE text[kept[k]] ]

\* f.read(2000)
HeadChars == 2000

\* a run of HeadChars filler characters, written as one token
Filler == "<filler>"

TokLen(t) == IF t = Filler THEN HeadChars ELSE Len(t)

RECURSIVE TextLen(_)
TextLen(text) == IF text = << >> THEN 0 ELSE TokLen(Head(text)) + TextLen(Tail(text))

\* "autogen: true" in head, head the first HeadChars characters of the file
file_has_autogen_flag(files, path) ==
    /\ Exists(files, path)
    /\ LET text == ReadText(files[path]) IN
       \E i \in DOMAIN text : /\ text[i] = AutogenMarker
                              /\ TextLen(SubSeq(text, 1, i)) <= HeadChars

(***************************************************************************)
(* read_page_content                                                       *)
(***************************************************************************)
\* the dict by id: a later row of the same id replaces an earlier one
RECURSIVE ContentItems(_, _)
ContentItems(rows, items) ==
    IF rows = << >> THEN items
    ELSE LET row == Head(rows) IN
         IF row.id = "" THEN ContentItems(Tail(rows), items)
         ELSE ContentItems(Tail(rows),
                           [ k \in DOMAIN items \cup { row.id } |->
                               IF k = row.id THEN row ELSE items[k] ])

read_page_content(file) ==
    IF ~ file.exists THEN << >> ELSE ContentItems(file.rows, << >>)

(***************************************************************************)
(* main(): the --create-stubs loop                                         *)
(***************************************************************************)
\* the children_links argument of write_stub: None is << >>
ChildrenLinks(nodes, children, n) ==
    IF n.kind \in { "landing", "section" } /\ n.id \in DOMAIN children
    THEN [ i \in DOMAIN children[n.id] |->
             << NodeAt(nodes, children[n.id][i]).label,
                HrefOf(NodeAt(nodes, children[n.id][i])) >> ]
    ELSE << >>

\* the text this run produces for the page of node n, and the branch taken
PageBranch(content_by_id, n) ==
    IF n.id \in DOMAIN content_by_id /\ content_by_id[n.id].template = "single_iframe"
    THEN "single_iframe"
    ELSE IF n.id \in DOMAIN content_by_id /\ content_by_id[n.id].template = "doble_iframe"
    THEN "doble_iframe"
    ELSE "stub"

PageText(nodes, children, content_by_id, n) ==
    IF PageBranch(content_by_id, n) = "single_iframe"
    THEN render_single_iframe(content_by_id[n.id], n.label)
    ELSE IF PageBranch(content_by_id, n) = "doble_iframe"
    THEN render_doble_iframe(content_by_id[n.id], n.label)
    ELSE StubText(n.label, n.kind \in { "landing", "section" },
                  ChildrenLinks(nodes, children, n), n.description)

\* a gate that treats template pages like stubs: written only when missing
WritesPageOnlyIfMissing(files, content_by_id, n) ==
    /\ n.kind # "external"
    /\ n.file_path # << >>
    /\ ~ Exists(files, n.file_path)

\* whether the body of the loop writes the page of n, given the files so far
WritesPage(files, content_by_id, n) ==
    /\ n.kind # "external"
    /\ n.file_path # << >>
    /\ IF PageBranch(content_by_id, n) \in { "single_iframe", "doble_iframe" }
       THEN ~ Exists(files, n.file_path) \/ file_has_autogen_flag(files, n.file_path)
       ELSE ~ Exists(files, n.file_path)

\* the loop from the i-th node on: st = [fs, writes], writes the log of the
\* open(fp, "w") calls with the file as it was just before each
RECURSIVE CreateStubs(_, _, _, _, _)
CreateStubs(st, nodes, children, content_by_id, i) ==
    IF i > Len(nodes) THEN st
    ELSE LET n == nodes[i] IN
         IF WritesPage(st.fs, content_by_id, n)
         THEN LET text == PageText(nodes, children, content_by_id, n) IN
              CreateStubs([ fs     |-> WriteFile(st.fs, n.file_path, text),
                            writes |-> Append(st.writes,
                                              [ id   |-> n.id,
                                                path |-> n.file_path,
                                                old  |-> PageFile(st.fs, n.file_path),
                                                text |-> text ]) ],
                          nodes, children, content_by_id, i + 1)
         ELSE CreateStubs(st, nodes, children, content_by_id, i + 1)

(***************************************************************************)
(* main()                                                                  *)
(***************************************************************************)
\* the result of a run that stops before it renders anything
Stopped(outcome, ymlFile, files) ==
    [ outcome |-> outcome, yml |-> ymlFile, fs |-> files, ymlWritten |-> FALSE,
      writes |-> << >>, yaml_text |-> << >>, stdout |-> << >>,
      nodes |-> << >>, children |-> << >>, roots |-> << >>, content_by_id |-> << >> ]

\* the yml-out part: the file after it, and whether it was written
YmlStep(args, ymlFile, yaml_text) ==
    IF args.dry_run THEN [ yml |-> ymlFile, written |-> FALSE ]
    ELSE IF ~ ymlFile.exists \/ ReadText(ymlFile.text) # yaml_text
         THEN [ yml |-> FileOf(yaml_text), written |-> TRUE ]
         ELSE [ yml |-> ymlFile, written |-> FALSE ]

main(args, rows, contentFile, ymlFile, files) ==
    LET rd == read_nodes(rows) IN
    IF rd.err # "" THEN Stopped(rd.err, ymlFile, files)
    ELSE LET roots == find_roots(rd.nodes) IN
    IF roots = << >> THEN Stopped("noroots", ymlFile, files)
    ELSE LET nodes == ensure_paths(rd.nodes) IN
    IF nodes = << >> THEN Stopped("hang", ymlFile, files)
    ELSE LET content_by_id == read_page_content(contentFile) IN
    IF args.validate
    THEN [ Stopped("validated", ymlFile, files) EXCEPT
             !.stdout = validate_tree(nodes, rd.children),
             !.nodes = nodes, !.children = rd.children, !.roots = roots,
             !.content_by_id = content_by_id ]
    ELSE LET yaml_text == build_yaml(args.site_title, roots, nodes, rd.children,
                                     args.theme1, args.theme2, args.css, ~ args.no_toc,
                                     args.sidebar_style, args.sidebar_background)
             y  == YmlStep(args, ymlFile, yaml_text)
             st == IF args.create_stubs
                   THEN CreateStubs([ fs |-> files, writes |-> << >> ],
                                    nodes, rd.children, content_by_id, 1)
                   ELSE [ fs |-> files, writes |-> << >> ]
         IN  [ outcome |-> "done", yml |-> y.yml, fs |-> st.fs, ymlWritten |-> y.written,
               writes |-> st.writes, yaml_text |-> yaml_text,
               stdout |-> IF args.dry_run THEN << yaml_text >> ELSE << >>,
               nodes |-> nodes, children |-> rd.children, roots |-> roots,
               content_by_id |-> content_by_id ]

(***************************************************************************)
(* Inputs                                                                  *)
(***************************************************************************)
MaxRows == 3

\* a row of nodes.csv with only the required columns
Row(id, parent_id, label, kind) ==
    [ id |-> id, parent_id |-> parent_id, label |-> label, kind |-> kind,
      slug |-> << >>, file_path |-> << >>, order |-> << >>, description |-> << >>,
      external_url |-> IF kind = "external" THEN << "https://e" >> ELSE << >>,
      sidebar_as |-> << >> ]

BlankRow == [ Row("", "", << >>, "") EXCEPT !.external_url = << >> ]

\* a row of page_content.csv with only id and template
ContentRow(id, template) ==
    [ id |-> id, template |-> template, layout |-> << >>,
      grid_sidebar_width |-> << >>, grid_body_width |-> << >>,
      grid_margin_width |-> << >>, grid_gutter_width |-> << >>, intro_md |-> << >>,
      iframe1_src |-> << >>, iframe1_height |-> << >>, iframe1_width |-> << >>,
      iframe1_style |-> << >>, iframe2_src |-> << >>, iframe2_height |-> << >>,
      iframe2_width |-> << >>, iframe2_style |-> << >>, iframe_src |-> << >>,
      iframe_height |-> << >>, iframe_width |-> << >>, iframe_style |-> << >> ]

\* the command line: the three mode flags, the other options at their defaults
Args(validate, dry_run, create_stubs) ==
    [ validate |-> validate, dry_run |-> dry_run, create_stubs |-> create_stubs,
      site_title |-> << "NESBp" >>, theme1 |-> << "cosmo" >>, theme2 |-> << "brand" >>,
      css |-> << "styles.css" >>, no_toc |-> FALSE,
      sidebar_style |-> << >>, sidebar_background |-> << >> ]

ArgSets == { Args(v, d, c) : v \in BOOLEAN, d \in BOOLEAN, c \in BOOLEAN }

\* the runs that write nothing on any input: --validate, and --dry-run alone
NavArgSets == { Args(TRUE, FALSE, FALSE), Args(FALSE, TRUE, FALSE) }

(* The navigation files of the tree claims: row 1 is the root docs, with or *)
(* without a file_path of its own; every other row picks its parent among   *)
(* none, docs and the row after it (the last row: the second row), so that  *)
(* chains, second roots, parentless non-roots and parent cycles all occur,  *)
(* and its kind, a landing row also its sidebar_as, an external row also    *)
(* whether it has a file_path.                                              *)
NavIds == << "docs", "guide", "api", "faq", "misc" >>

NavLabels == << << "D" >>, << "B" >>, << "a" >>, << "c", "!" >>, << "E" >> >>

NavOrders == << << >>, << >>, << >>, << "1" >>, << "x" >> >>

NavRow(i, parent_id, kind) == [ Row(NavIds[i], parent_id, NavLabels[i], kind)
                                  EXCEPT !.order = NavOrders[i] ]

RootRows == { NavRow(1, "", "navbar"),
              [ NavRow(1, "", "navbar") EXCEPT !.file_path = << "h", ".qmd" >> ] }

\* where the parent_id of a row points
NavParents == { "none", "root", "next" }

\* the parent_id of row i of n rows
NavParent(i, n, p) ==
    IF p = "none" THEN ""
    ELSE IF p = "root" THEN NavIds[1]
    ELSE NavIds[IF i = n THEN 2 ELSE i + 1]

\* the kind of a row with the columns that go with it
NavShapes ==
    { [ kind |-> k, sidebar_as |-> << >>, file_path |-> << >> ]
        : k \in { "navbar", "section", "item", "external", "landing" } }
    \cup { [ kind |-> "landing", sidebar_as |-> m, file_path |-> << >> ]
             : m \in { TEXT, SECTION } }
    \cup { [ kind |-> "external", sidebar_as |-> << >>, file_path |-> << "e", ".qmd" >> ] }

NavRowAt(i, n, p, shape) ==
    [ NavRow(i, NavParent(i, n, p), shape.kind)
        EXCEPT !.sidebar_as = shape.sidebar_as, !.file_path = shape.file_path ]

\* the file of n rows: the root row, then the rows 2 .. n as picked
NavFile(root, n, pick) ==
    [ i \in 1 .. n |-> IF i = 1 THEN root
                       ELSE NavRowAt(i, n, pick[i][1], pick[i][2]) ]

(* The navigation files of the nesting claims: the root docs, the node     *)
(* guide under it, a section or a landing node with each sidebar_as, and up *)
(* to MaxKids further rows, each under guide or under the row before it,    *)
(* of any kind: a node with several children, whose file order differs      *)
(* from their sibling order, and sections nested in sections.               *)
MaxKids == 2

SideHeads ==
    { NavRowAt(2, 2, "root", shape)
        : shape \in { sh \in NavShapes : sh.kind \in { "landing", "section" } } }

\* where the parent_id of a further row points
SideParents == { "head", "prev" }

SideRowAt(i, p, shape) ==
    [ NavRow(i, NavIds[IF p = "head" THEN 2 ELSE i - 1], shape.kind)
        EXCEPT !.sidebar_as = shape.sidebar_as, !.file_path = shape.file_path ]

\* the file with k further rows: docs, guide, then the rows 3 .. k + 2 as picked
SideFile(head, k, pick) ==
    [ i \in 1 .. k + 2 |-> IF i = 1 THEN NavRow(1, "", "navbar")
                           ELSE IF i = 2 THEN head
                           ELSE SideRowAt(i, pick[i][1], pick[i][2]) ]

\* page_content.csv is missing
NoContent == [ exists |-> FALSE, rows |-> << >> ]

(* The navigation files of the file claims: the example of the docs (docs  *)
(* with the item guide), a label with a carriage return, a landing page    *)
(* with a child, a description and a blank row, two nodes on one page, and *)
(* the rejected files: duplicate id, unknown parent, missing label, no     *)
(* root, and a parent cycle.                                               *)
Docs == [ Row("docs", "", << "D" >>, "navbar") EXCEPT !.order = << "1" >> ]

Guide == Row("guide", "docs", << "G" >>, "item")

FsNodeFiles ==
    { << Docs, Guide >>,
      << [ Docs EXCEPT !.label = << "D", "\r", "c" >>, !.slug = << "d" >> ], Guide >>,
      << Docs, BlankRow,
         [ Row("land", "docs", << "L" >>, "landing") EXCEPT !.description = << "about" >> ],
         [ Guide EXCEPT !.parent_id = "land", !.file_path = << "d", "/", "g", ".qmd" >> ] >>,
      << Docs, [ Guide EXCEPT !.file_path = << "d", "/", "index.qmd" >> ] >>,
      << Docs, [ Guide EXCEPT !.id = "docs" ] >>,
      << Docs, [ Guide EXCEPT !.parent_id = "nope" ] >>,
      << Docs, [ Guide EXCEPT !.label = << >> ] >>,
      << [ Docs EXCEPT !.kind = "landing" ], Guide >>,
      << Docs, [ Guide EXCEPT !.parent_id = "api" ], Row("api", "guide", << "a" >>, "section") >> }

\* the content files: none, guide on each template, template unset or unknown
FsContentFiles ==
    { NoContent,
      [ exists |-> TRUE,
        rows |-> << [ ContentRow("guide", "single_iframe") EXCEPT !.iframe1_src = << "https://x" >> ] >> ],
      [ exists |-> TRUE,
        rows |-> << ContentRow("", "single_iframe"),
                    ContentRow("guide", "single_iframe"),
                    [ ContentRow("guide", "doble_iframe") EXCEPT
                        !.iframe_src = << "https://y" >>, !.iframe2_src = << "https://z" >>,
                        !.intro_md = << "Intro" >>, !.grid_body_width = << "900px" >> ] >> ],
      [ exists |-> TRUE,
        rows |-> << ContentRow("guide", ""), ContentRow("docs", "triple_iframe") >> ] }

\* the path of the page of guide in those files
HandPaths == { << "d", "/", "g", ".qmd" >> }

\* a _quarto.yml left by an earlier version of the site
StaleYml == [ exists |-> TRUE, text |-> << "project:", "\n" >> ]

\* pages written by hand: no marker at all, the marker text in the body only,
\* the marker in the front matter, the marker in the front matter past the
\* first HeadChars characters
HandPages ==
    { << "---", "\n", "title: mine", "\n", "---", "\n", "My page", "\n" >>,
      << "---", "\n", "title: mine", "\n", "---", "\n", AutogenMarker, "\n" >>,
      << "---", "\n", "title: mine", "\n", AutogenMarker, "\n", "---", "\n" >>,
      << "---", "\n", "description: ", Filler, "\n", AutogenMarker, "\n", "---", "\n" >> }

(***************************************************************************)
(* State                                                                   *)
(***************************************************************************)
VARIABLES nodesCsv, contentCsv, yml, fs, ymlSrc, last

vars == << nodesCsv, contentCsv, yml, fs, ymlSrc, last >>

EmptyFs == [ p \in { } |-> << >> ]

\* no run has finished since the last change of the files
NoRun == [ ran |-> FALSE, args |-> Args(FALSE, FALSE, FALSE), rerun |-> FALSE,
           rows |-> << >>, preYml |-> NoFile, preFs |-> EmptyFs,
           res |-> Stopped("none", NoFile, EmptyFs) ]

\* one run of the program: main() from the command line to its exit
Run(args) ==
    /\ last' = [ ran |-> TRUE, args |-> args,
                 rerun |-> ymlSrc.known /\ ymlSrc.rows = nodesCsv,
                 rows |-> nodesCsv, preYml |-> yml, preFs |-> fs,
                 res |-> main(args, nodesCsv, contentCsv, yml, fs) ]
    /\ yml' = last'.res.yml
    /\ fs' = last'.res.fs
    /\ ymlSrc' = IF last'.res.outcome = "done" /\ ~ args.dry_run
                 THEN [ known |-> TRUE, rows |-> nodesCsv ] ELSE ymlSrc
    /\ UNCHANGED << nodesCsv, contentCsv >>

InitNav ==
    /\ \E n \in 1 .. MaxRows, root \in RootRows :
          \E pick \in [ 2 .. n -> NavParents \X NavShapes ] :
             nodesCsv = NavFile(root, n, pick)
    /\ contentCsv = NoContent
    /\ yml = NoFile
    /\ fs = EmptyFs
    /\ ymlSrc = [ known |-> FALSE, rows |-> << >> ]
    /\ last = NoRun

NextNav == \E args \in NavArgSets : Run(args)

SpecNav == InitNav /\ [][NextNav]_vars

InitSide ==
    /\ \E k \in 0 .. MaxKids, head \in SideHeads :
          \E pick \in [ 3 .. k + 2 -> SideParents \X NavShapes ] :
             nodesCsv = SideFile(head, k, pick)
    /\ contentCsv = NoContent
    /\ yml = NoFile
    /\ fs = EmptyFs
    /\ ymlSrc = [ known |-> FALSE, rows |-> << >> ]
    /\ last = NoRun

SpecSide == InitSide /\ [][NextNav]_vars

\* the user writes a page file by hand
ManualEdit(path, text) ==
    /\ PageFile(fs, path) # FileOf(text)
    /\ fs' = WriteFile(fs, path, text)
    /\ last' = NoRun
    /\ UNCHANGED << nodesCsv, contentCsv, yml, ymlSrc >>

Init ==
    /\ nodesCsv \in FsNodeFiles
    /\ contentCsv \in FsContentFiles
    /\ yml \in { NoFile, StaleYml }
    /\ fs = EmptyFs
    /\ ymlSrc = [ known |-> FALSE, rows |-> << >> ]
    /\ last = NoRun

Next ==
    \/ \E args \in ArgSets : Run(args)
    \/ \E path \in HandPaths, text \in HandPages : ManualEdit(path, text)

Spec == Init /\ [][Next]_vars

(***************************************************************************)
(* Properties of the page and configuration writes (checked under Spec)    *)
(***************************************************************************)
Res == last.res

Finished == last.ran /\ Res.outcome = "done"

FatalOutcomes == { "missing", "duplicate", "parent", "noroots" }

\* the index of the line "---" that closes the front matter, 0 if there is none
FrontMatterEnd(text) ==
    IF text # << >> /\ text[1] = "---"
          /\ \E i \in 2 .. Len(text) : text[i] = "---" /\ text[i - 1] = "\n"
    THEN CHOOSE i \in 2 .. Len(text) :
            /\ text[i] = "---" /\ text[i - 1] = "\n"
            /\ \A j \in 2 .. (i - 1) : ~ (text[j] = "---" /\ text[j - 1] = "\n")
    ELSE 0

\* the page carries the line autogen: true in its header
HeaderHasMarker(text) ==
    \E i \in 1 .. FrontMatterEnd(text) : text[i] = AutogenMarker

\* ... and that line lies within the first HeadChars characters of the file
HeaderHasEarlyMarker(text) ==
    \E i \in 1 .. FrontMatterEnd(text) :
        text[i] = AutogenMarker /\ TextLen(SubSeq(text, 1, i)) <= HeadChars

WrittenPaths == { Res.writes[i].path : i \in DOMAIN Res.writes }

\* C1: over any runs, a page file that exists and does not carry the marker
\* autogen: true in its header is never modified: it is the same file after
\* the run as before, and no write went to its path.
C1_ManualPageNeverModified ==
    last.ran =>
        \A p \in DOMAIN last.preFs :
            ~ HeaderHasMarker(last.preFs[p]) =>
                /\ p \notin WrittenPaths
                /\ p \in DOMAIN Res.fs /\ Res.fs[p] = last.preFs[p]

\* C2: a run on the inputs the configuration document was last rendered from
\* performs no write to the configuration document.
C2_RerunWritesNoYml ==
    (Finished /\ last.rerun /\ ~ last.args.dry_run) => ~ Res.ymlWritten

\* the nodes of the finished run that have a page: not external, with a path
PageNodes == { i \in DOMAIN Res.nodes : /\ Res.nodes[i].kind # "external"
                                        /\ Res.nodes[i].file_path # << >> }

TextOfRun(i) == PageText(Res.nodes, Res.children, Res.content_by_id, Res.nodes[i])

WroteNode(i) ==
    \E k \in DOMAIN Res.writes :
        /\ Res.writes[k].id = Res.nodes[i].id
        /\ Res.writes[k].path = Res.nodes[i].file_path
        /\ Res.writes[k].text = TextOfRun(i)

\* C3: a page file that contains the marker is overwritten by the next run
\* with --create-stubs whenever the content the run produces for its node
\* differs from the file's content, whatever the content record of the node.
C3_MarkedPageAlwaysRefreshed ==
    (Finished /\ last.args.create_stubs) =>
        \A i \in PageNodes :
            LET fp == Res.nodes[i].file_path IN
            ( /\ fp \in DOMAIN last.preFs
              /\ HeaderHasMarker(last.preFs[fp])
              /\ last.preFs[fp] # TextOfRun(i) ) => WroteNode(i)

\* no other node of the run has the page path of node i
OwnPath(i) ==
    \A j \in DOMAIN Res.nodes : j # i => Res.nodes[j].file_path # Res.nodes[i].file_path

TemplateOf(i) ==
    IF Res.nodes[i].id \in DOMAIN Res.content_by_id
    THEN Res.content_by_id[Res.nodes[i].id].template ELSE ""

\* C3 (amended): on a run with --create-stubs that gets past validation and
\* is not --validate, a page file with the marker in its header, within the
\* first 2000 characters, is overwritten with the rendered template when its
\* node (the only node on that path) has a content record with template
\* single_iframe or doble_iframe; for any other node a page file that exists
\* is left as it is.
C3_TemplatePageRefreshed ==
    (Finished /\ last.args.create_stubs) =>
        \A i \in PageNodes :
            LET fp == Res.nodes[i].file_path IN
            ( fp \in DOMAIN last.preFs /\ OwnPath(i) ) =>
                IF TemplateOf(i) \in { "single_iframe", "doble_iframe" }
                THEN HeaderHasEarlyMarker(last.preFs[fp]) =>
                        WroteNode(i) /\ Res.fs[fp] = TextOfRun(i)
                ELSE fp \notin WrittenPaths /\ Res.fs[fp] = last.preFs[fp]

\* C3 witness: a hand-made page with the marker in its header, different from
\* the rendering of its node, was replaced by the single_iframe rendering.
C3_Witness ==
    /\ Finished /\ last.args.create_stubs
    /\ \E i \in PageNodes :
          LET fp == Res.nodes[i].file_path IN
          /\ TemplateOf(i) = "single_iframe" /\ OwnPath(i)
          /\ fp \in DOMAIN last.preFs
          /\ last.preFs[fp] \in HandPages
          /\ HeaderHasEarlyMarker(last.preFs[fp])
          /\ Res.fs[fp] = TextOfRun(i)
          /\ Res.fs[fp] # last.preFs[fp]

\* the non-blank rows of nodes.csv
DataRows(rows) == SelectSeq(rows, LAMBDA r : ~ IsBlankRow(r))

\* one of the four fatal conditions holds of the rows
FatalCondition(rows) ==
    LET d == DataRows(rows) IN
    \/ \E i, j \in DOMAIN d : i # j /\ d[i].id = d[j].id
    \/ \E i \in DOMAIN d : /\ d[i].parent_id # ""
                           /\ \A j \in DOMAIN d : d[j].id # d[i].parent_id
    \/ \E i \in DOMAIN d : d[i].id = "" \/ d[i].label = << >> \/ d[i].kind = ""
    \/ ~ \E i \in DOMAIN d : d[i].parent_id = "" /\ d[i].kind = "navbar"

\* C4: each fatal condition (duplicate id, unknown parent_id, missing id,
\* label or kind, no root) aborts the run before anything is written: the
\* configuration document and the pages are as they were before the run.
C4_FatalRunWritesNothing ==
    (last.ran /\ FatalCondition(last.rows)) =>
        /\ Res.outcome \in FatalOutcomes
        /\ ~ Res.ymlWritten /\ Res.writes = << >>
        /\ Res.yml = last.preYml
        /\ Res.fs = last.preFs

\* C4 witness: a run asked to write everything was aborted with a
\* configuration document in place.
C4_Witness ==
    /\ last.ran /\ FatalCondition(last.rows)
    /\ last.args.create_stubs /\ ~ last.args.dry_run /\ ~ last.args.validate
    /\ last.preYml.exists
    /\ Res.outcome \in FatalOutcomes

\* C5: a run with --dry-run writes no file, whatever the other flags.
C5_DryRunWritesNothing ==
    (last.ran /\ last.args.dry_run) =>
        /\ Res.yml = last.preYml
        /\ Res.fs = last.preFs
        /\ ~ Res.ymlWritten /\ Res.writes = << >>

\* C6: a file is written only when the content to write differs from the
\* content the file has.
C6_WritesAreChangeOnly ==
    last.ran =>
        /\ Res.ymlWritten => last.preYml # FileOf(Res.yaml_text)
        /\ \A k \in DOMAIN Res.writes : Res.writes[k].old # FileOf(Res.writes[k].text)

(***************************************************************************)
(* Properties of the tree, the paths and the sidebar (checked under        *)
(* SpecNav)                                                                *)
(***************************************************************************)
\* the run got past validation and path derivation
Accepted == last.ran /\ Res.outcome \in { "done", "validated" }

\* sub occurs in text as a run of consecutive tokens
ContainsSeq(text, sub) ==
    \E i \in 1 .. (Len(text) - Len(sub) + 1) : SubSeq(text, i, i + Len(sub) - 1) = sub

\* some record names id as its parent
HasChild(nodes, id) == \E j \in DOMAIN nodes : nodes[j].parent_id = id

\* the record of id in nodes.csv
RowOf(rows, id) == rows[CHOOSE i \in DOMAIN rows : rows[i].id = id]

IsRootId(nodes, id) ==
    \E j \in DOMAIN nodes : /\ nodes[j].id = id
                            /\ nodes[j].parent_id = "" /\ nodes[j].kind = "navbar"

\* the mode the claim gives a landing node
ClaimedMode(nodes, n) ==
    IF n.sidebar_as = << >>
    THEN IF HasChild(nodes, n.id) THEN SECTION ELSE TEXT
    ELSE n.sidebar_as

\* the first sidebar line of a landing node in that mode
ClaimedSidebarLine(n, mode) ==
    IF mode = SECTION THEN << "- section: \"" >> \o n.label \o << "\"" >>
    ELSE << "- text: \"" >> \o n.label \o << "\"" >>

\* the line of validate mode for a landing node in that mode
ClaimedTreeLine(n, mode) ==
    n.label \o << " [", "landing", "]", " (sidebar_as=" >>
    \o ( IF n.sidebar_as = << >> THEN AUTO ELSE n.sidebar_as )
    \o << " -> " >> \o mode \o << ")" >>

\* C7: a landing node with sidebar_as unset resolves to section when it has
\* a child and to text when it has none; with sidebar_as text or section it
\* resolves to that value, children or not; the sidebar renderer and
\* validate mode both show that mode.
C7_LandingModeResolution ==
    Accepted =>
        \A i \in DOMAIN Res.nodes :
            LET n == Res.nodes[i] IN
            ( n.kind = "landing" /\ n.sidebar_as \in { << >>, TEXT, SECTION } ) =>
                LET mode == ClaimedMode(Res.nodes, n) IN
                /\ build_sidebar_contents(Res.nodes, Res.children, n.id)[1]
                       = ClaimedSidebarLine(n, mode)
                /\ node_line(Res.nodes, Res.children, n) = ClaimedTreeLine(n, mode)
                /\ ( Res.outcome = "done" /\ IsRootId(Res.nodes, n.parent_id) ) =>
                       ContainsSeq(Res.yaml_text,
                                   << "\n", "        " >> \o ClaimedSidebarLine(n, mode))
                /\ ( Res.outcome = "validated" /\ IsRootId(Res.nodes, n.parent_id) ) =>
                       \E k \in DOMAIN Res.stdout :
                           Res.stdout[k] = << "  ", "- " >> \o ClaimedTreeLine(n, mode)

\* C7 witness: a landing child of a root, explicitly text, with a child of
\* its own, was rendered as a plain link.
C7_Witness ==
    /\ Finished
    /\ \E i \in DOMAIN Res.nodes :
          LET n == Res.nodes[i] IN
          /\ n.kind = "landing" /\ n.sidebar_as = TEXT
          /\ HasChild(Res.nodes, n.id)
          /\ IsRootId(Res.nodes, n.parent_id)
          /\ ContainsSeq(Res.yaml_text, << "        ", "- text: \"" >> \o n.label)

\* C8: after path derivation every external node has an empty file_path and
\* every node of another kind a non-empty one.
C8_ExternalPathEmpty ==
    Accepted =>
        \A i \in DOMAIN Res.nodes :
            IF Res.nodes[i].kind = "external"
            THEN Res.nodes[i].file_path = << >>
            ELSE Res.nodes[i].file_path # << >>

\* C8 (amended): after path derivation every external node has the file_path
\* of its record, which is empty unless the record gives one (none is ever
\* derived for it), and every node of another kind has a non-empty file_path.
C8_ExternalPathNeverDerived ==
    Accepted =>
        \A i \in DOMAIN Res.nodes :
            IF Res.nodes[i].kind = "external"
            THEN Res.nodes[i].file_path = RowOf(last.rows, Res.nodes[i].id).file_path
            ELSE Res.nodes[i].file_path # << >>

\* C8 witness: an external node kept the file_path of its record while an
\* item without one received a path.
C8_Witness ==
    /\ Accepted
    /\ \E i, j \in DOMAIN Res.nodes :
          /\ Res.nodes[i].kind = "external" /\ Res.nodes[i].file_path # << >>
          /\ Res.nodes[j].kind = "item"
          /\ RowOf(last.rows, Res.nodes[j].id).file_path = << >>
          /\ Res.nodes[j].file_path # << >>

\* the slugs of the ancestry chain of a node, root first, its own slug last
RECURSIVE AncestrySlugs(_, _)
AncestrySlugs(nodes, id) ==
    LET n == NodeAt(nodes, id) IN
    IF n.parent_id = "" THEN << n.slug >>
    ELSE Append(AncestrySlugs(nodes, n.parent_id), n.slug)

\* the path the claim derives
ClaimedPath(nodes, n) ==
    LET A == AncestrySlugs(nodes, n.id) IN
    IF n.kind \in { "navbar", "landing", "section" }
    THEN Join(A \o << << "index.qmd" >> >>, "/")
    ELSE Join(SubSeq(A, 1, Len(A) - 1) \o << n.slug \o << ".qmd" >> >>, "/")

\* C9: a non-external node without a file_path of its own gets
\* join(A + [index.qmd]) when it is a navbar, landing or section node and
\* join(A without its last element + [slug.qmd]) otherwise, A the slugs of
\* its ancestry chain, root first; a node with a file_path of its own keeps
\* it.  The root docs with the item guide: d/index.qmd and d/b.qmd.
C9_DerivedPathFormula ==
    Accepted =>
        /\ \A i \in DOMAIN Res.nodes :
              LET n   == Res.nodes[i]
                  own == RowOf(last.rows, n.id).file_path
              IN  n.kind # "external" =>
                      n.file_path = IF own # << >> THEN own ELSE ClaimedPath(Res.nodes, n)
        /\ last.rows = << NavRow(1, "", "navbar"), NavRow(2, "docs", "item") >> =>
              /\ Res.nodes[1].file_path = << "d", "/", "index.qmd" >>
              /\ Res.nodes[2].file_path = << "d", "/", "b", ".qmd" >>

\* C9 witness: an item under a landing page under the root got a path of
\* three parts, and the root kept the file_path of its record.
C9_Witness ==
    /\ Accepted
    /\ \E i \in DOMAIN Res.nodes :
          /\ Res.nodes[i].kind = "item"
          /\ RowOf(last.rows, Res.nodes[i].id).file_path = << >>
          /\ Len(AncestrySlugs(Res.nodes, Res.nodes[i].id)) = 3
          /\ Res.nodes[i].file_path
                 = Join(AncestrySlugs(Res.nodes, Res.nodes[i].id), "/") \o << ".qmd" >>
    /\ Res.nodes[1].file_path = << "h", ".qmd" >>

\* the sidebar block of root opens with the default link to the root itself
HasRootDefaultEntry(yaml_text, root) ==
    ContainsSeq(yaml_text,
                << "    - title: \"" >> \o root.label \o << "\"", "\n", "      contents:", "\n",
                   "        ", "- text: \"" >> \o root.label \o << "\"", "\n",
                   "        ", "  href: " >> \o root.file_path \o << "\n" >>)

HasLandingChild(nodes, id) ==
    \E j \in DOMAIN nodes : nodes[j].parent_id = id /\ nodes[j].kind = "landing"

\* C10: the sidebar block of a root starts with a default link to the root
\* exactly when the root has a file_path in its record and no direct child
\* of kind landing.
C10_DefaultEntryNeedsExplicitPath ==
    Finished =>
        \A i \in DOMAIN Res.roots :
            LET root == NodeAt(Res.nodes, Res.roots[i]) IN
            HasRootDefaultEntry(Res.yaml_text, root)
                <=> ( /\ RowOf(last.rows, root.id).file_path # << >>
                      /\ ~ HasLandingChild(Res.nodes, root.id) )

\* C10 (amended): the sidebar block of a root starts with a default link to
\* the root exactly when the root has no direct child of kind landing,
\* whether its file_path comes from its record or from path derivation.
C10_DefaultEntryUnlessLandingChild ==
    Finished =>
        \A i \in DOMAIN Res.roots :
            LET root == NodeAt(Res.nodes, Res.roots[i]) IN
            HasRootDefaultEntry(Res.yaml_text, root) <=> ~ HasLandingChild(Res.nodes, root.id)

\* C10 witness: a root without a file_path in its record and without a
\* landing child got the default link, to its derived path.
C10_Witness ==
    /\ Finished
    /\ \E i \in DOMAIN Res.roots :
          LET root == NodeAt(Res.nodes, Res.roots[i]) IN
          /\ RowOf(last.rows, root.id).file_path = << >>
          /\ HasChild(Res.nodes, root.id)
          /\ ~ HasLandingChild(Res.nodes, root.id)
          /\ HasRootDefaultEntry(Res.yaml_text, root)

\* the ids of the records that name id as their parent
ChildIds(nodes, id) == { nodes[j].id : j \in { k \in DOMAIN nodes : nodes[k].parent_id = id } }

\* sibling order: order ascending, then lowercased label
ClaimedBefore(a, b) ==
    \/ a.order < b.order
    \/ a.order = b.order /\ StrLess(Lower(a.label), Lower(b.label))

\* the children of id in sibling order
ClaimedKids(nodes, id) ==
    LET S == ChildIds(nodes, id) IN
    CHOOSE s \in [ 1 .. Cardinality(S) -> S ] :
        /\ \A i, j \in DOMAIN s : i # j => s[i] # s[j]
        /\ \A i, j \in DOMAIN s :
              i < j => ~ ClaimedBefore(NodeAt(nodes, s[j]), NodeAt(nodes, s[i]))

\* a leaf entry: label and href
ClaimedLeaf(n) ==
    << << "- text: \"" >> \o n.label \o << "\"" >>,
       << "  href: " >> \o ( IF n.kind = "external" THEN n.external_url ELSE n.file_path ) >>

\* the entries of the direct children of a root, as the claim lists them
RECURSIVE ClaimedRootEntries(_, _, _)
ClaimedRootEntries(nodes, children, kids) ==
    IF kids = << >> THEN << >>
    ELSE LET c == NodeAt(nodes, kids[1]) IN
         Indent("        ", IF c.kind \in { "landing", "section" }
                            THEN build_sidebar_contents(nodes, children, c.id)
                            ELSE ClaimedLeaf(c))
         \o ClaimedRootEntries(nodes, children, SubSeq(kids, 2, Len(kids)))

\* the sidebar block of a root with an entry for every direct child
ClaimedRootBlock(nodes, children, root) ==
    << << "    - title: \"" >> \o root.label \o << "\"" >>, << "      contents:" >> >>
    \o RootDefaultLines(nodes, children, root)
    \o ClaimedRootEntries(nodes, children, ClaimedKids(nodes, root.id))
    \o << << >> >>

\* C11: the sidebar block of every root holds an entry for every direct child
\* of the root, in sibling order: a landing or section child through the
\* recursive rule, every other child as a leaf entry (label and href); no
\* direct child of a root is left out.
C11_RootBlockListsEveryChild ==
    Finished =>
        \A i \in DOMAIN Res.roots :
            ContainsSeq(Res.yaml_text,
                        JoinLines(ClaimedRootBlock(Res.nodes, Res.children,
                                                   NodeAt(Res.nodes, Res.roots[i]))))

\* the entry of a landing or section node, as the claim builds it: a leaf for
\* a landing node in text mode, else a section header, the href when there is
\* a file_path, and under contents one entry per child in sibling order
RECURSIVE ClaimedSidebar(_, _)
RECURSIVE ClaimedNested(_, _)
ClaimedNested(nodes, kids) ==
    IF kids = << >> THEN << >>
    ELSE LET c == NodeAt(nodes, kids[1]) IN
         Indent("    ", IF c.kind \in { "landing", "section" }
                        THEN ClaimedSidebar(nodes, c.id)
                        ELSE ClaimedLeaf(c))
         \o ClaimedNested(nodes, SubSeq(kids, 2, Len(kids)))

ClaimedSidebar(nodes, id) ==
    LET n == NodeAt(nodes, id) IN
    IF n.kind = "landing" /\ ClaimedMode(nodes, n) = TEXT
    THEN ClaimedLeaf(n)
    ELSE << << "- section: \"" >> \o n.label \o << "\"" >> >>
         \o ( IF n.file_path # << >> THEN << << "  href: " >> \o n.file_path >> ELSE << >> )
         \o ( IF HasChild(nodes, id)
              THEN << << "  contents:" >> >> \o ClaimedNested(nodes, ClaimedKids(nodes, id))
              ELSE << >> )

\* d is a descendant of anc: the parent_id links from d lead to anc
RECURSIVE IsBelow(_, _, _, _)
IsBelow(nodes, d, anc, steps) ==
    LET p == NodeAt(nodes, d).parent_id IN
    IF p = "" \/ steps > Len(nodes) THEN FALSE
    ELSE p = anc \/ IsBelow(nodes, p, anc, steps + 1)

\* the sidebar has an entry, leaf or section header, for n
HasSidebarEntry(yaml_text, n) ==
    \/ ContainsSeq(yaml_text, << "- text: \"" >> \o n.label \o << "\"" >>)
    \/ ContainsSeq(yaml_text, << "- section: \"" >> \o n.label \o << "\"" >>)

(***************************************************************************)
(* The recursive rule of the sidebar (checked under SpecSide)              *)
(***************************************************************************)
\* C12: a landing node resolved to text mode contributes exactly one leaf
\* entry (label and href) and none of its descendants appears in the
\* sidebar; a section node always renders as a section header; a node in
\* section mode with children nests one entry per child in sibling order, a
\* landing or section child by the same rule one level deeper, every other
\* child as a leaf entry.
C12_RecursiveSidebarRule ==
    Accepted =>
        \A i \in DOMAIN Res.nodes :
            LET n == Res.nodes[i] IN
            n.kind \in { "landing", "section" } =>
                /\ build_sidebar_contents(Res.nodes, Res.children, n.id)
                       = ClaimedSidebar(Res.nodes, n.id)
                /\ n.kind = "section" =>
                       build_sidebar_contents(Res.nodes, Res.children, n.id)[1]
                           = << "- section: \"" >> \o n.label \o << "\"" >>
                /\ ( n.kind = "landing" /\ ClaimedMode(Res.nodes, n) = TEXT ) =>
                       /\ Len(build_sidebar_contents(Res.nodes, Res.children, n.id)) = 2
                       /\ Res.outcome = "done" =>
                              \A j \in DOMAIN Res.nodes :
                                  IsBelow(Res.nodes, Res.nodes[j].id, n.id, 1)
                                      => ~ HasSidebarEntry(Res.yaml_text, Res.nodes[j])

\* C12 witness: a section under the root was rendered with two children
\* below the line contents, in sibling order and not in file order: the
\* section faq (order 1) first, one level deeper, and after its lines api.
C12_Witness ==
    /\ Finished
    /\ LET n == NodeAt(Res.nodes, "guide") IN
       /\ n.kind = "section" /\ IsRootId(Res.nodes, n.parent_id)
       /\ ClaimedKids(Res.nodes, n.id) = << "faq", "api" >>
       /\ NodeAt(Res.nodes, "faq").kind = "section"
       /\ ContainsSeq(Res.yaml_text,
                      << "        ", "  contents:", "\n",
                         "        ", "    ", "- section: \"" >>
                      \o NodeAt(Res.nodes, "faq").label \o << "\"", "\n" >>)
       /\ ContainsSeq(Res.yaml_text,
                      << "\n", "        ", "    ", "- text: \"" >>
                      \o NodeAt(Res.nodes, "api").label \o << "\"", "\n" >>)

(***************************************************************************)
(* Termination of path derivation (checked under SpecNav)                  *)
(***************************************************************************)
\* following parent_id from the record of id reaches a record with an empty
\* parent_id; more links than there are records means a record was reached
\* twice, and then the links never end
RECURSIVE ReachesTop(_, _, _)
ReachesTop(rows, id, steps) ==
    LET p == RowOf(rows, id).parent_id IN
    IF p = "" THEN TRUE
    ELSE IF steps > Len(rows) THEN FALSE
    ELSE ReachesTop(rows, p, steps + 1)

\* C13: for every record set that the tree builder accepts (unique ids,
\* every non-empty parent_id names a record) and that has a root, path
\* derivation terminates: from every node the parent_id links reach a node
\* with an empty parent_id, so the loop of compute_default_file_path ends,
\* and no node is its own ancestor.
C13_PathDerivationTerminates ==
    ( last.ran /\ ~ FatalCondition(last.rows) ) =>
        /\ Res.outcome \in { "done", "validated" }
        /\ \A i \in DOMAIN DataRows(last.rows) :
              ReachesTop(DataRows(last.rows), DataRows(last.rows)[i].id, 1)

====
